---------------------------- MODULE Spec2Model ----------------------------
(***************************************************************************)
(* Model of src/wrapper.py: the command-line wrapper that resolves an API  *)
(* key, sends one generate_content request with the code-execution tool    *)
(* enabled, flattens the parts of the first candidate into the global      *)
(* responseText (display_code_execution_result) and prints it.             *)
(*                                                                         *)
(* Python values that may be None are coded as sequences of length 0 or 1: *)
(* None is <<>> and a value v is <<v>>.  A Python str is a sequence of     *)
(* one-character strings, so that "" (<<>> wrapped as << <<>> >>) and None *)
(* stay different values.                                                  *)
(***************************************************************************)
EXTENDS Naturals, Sequences, FiniteSets, TLC

VARIABLES
    pc,               \* position of main(): the line about to run, or "exit"/"harness"
    environ,          \* os.environ.get('GEMINI_API_KEY')
    args,             \* the parsed argparse namespace (None before line 73)
    api_key,          \* local api_key of main
    client,           \* the genai.Client built at line 81 (None before)
    netlog,           \* the generate_content requests sent so far, in order
    response,         \* the response returned by generate_content (None before)
    dpc,              \* position inside display_code_execution_result
    results,          \* local results of display_code_execution_result
    idx,              \* number of parts the for loop has taken so far
    part_result,      \* local part_result of the current iteration
    responseText,     \* the module global (None while the name is unbound)
    structured_parts, \* local structured_parts of main
    output,           \* local output of main (the record that is built)
    stdout,           \* characters written to standard output
    exc,              \* the exception being raised ("" when none)
    exit_code,        \* the process exit status (None while running)
    dirty             \* the global held non-empty text when the current call began

vars == <<pc, environ, args, api_key, client, netlog, response, dpc, results, idx,
          part_result, responseText, structured_parts, output, stdout, exc,
          exit_code, dirty>>

mainVars == <<pc, environ, args, api_key, client, netlog, structured_parts, output,
              stdout, exit_code>>

----------------------------------------------------------------------------
(* Bounds of the model.                                                    *)

\* most parts in candidates[0]
MaxParts == 2
\* most payload objects (text, executable_code, code_execution_result,
\* inline_data) populated over all parts of candidates[0]
MaxFields == 4
\* most candidates in a response
MaxCandidates == 2

----------------------------------------------------------------------------
(* Python values.                                                          *)

None == <<>>
Some(v) == <<v>>
Val(o) == o[1]

\* bool(x) of an Optional[str]: None and "" are falsy
Truthy(o) == o # None /\ Len(Val(o)) > 0

\* a + b on two str
Concat(a, b) == a \o b

EmptyDict == [k \in {} |-> None]
\* d[k] = v on a dict
Put(d, k, v) == (k :> v) @@ d

NL == <<"\n">>

----------------------------------------------------------------------------
(* The inputs: what the upstream API may return, the command line and the  *)
(* environment.                                                            *)

TextVals == {None, Some(<<>>), Some(<<"t">>)}

\* language is None when the object has no such attribute; the objects of the
\* SDK always carry it
ExecVals ==
    {None,
     Some([code |-> None, language |-> Some("PYTHON")]),
     Some([code |-> Some(<<"c">>), language |-> Some("PYTHON")])}

ResultVals ==
    {None,
     Some([output |-> None]),
     Some([output |-> Some(<<"o">>)])}

InlineVals ==
    {None,
     Some([data |-> <<"d">>, mime_type |-> Some("image/png")])}

Parts ==
    [text : TextVals, executable_code : ExecVals,
     code_execution_result : ResultVals, inline_data : InlineVals]

Populated(o) == IF o = None THEN 0 ELSE 1

Weight(p) ==
    Populated(p.text) + Populated(p.executable_code)
    + Populated(p.code_execution_result) + Populated(p.inline_data)

RECURSIVE PartSeqs(_, _)
\* the part lists of length k with at most w payload objects populated
PartSeqs(k, w) ==
    IF k = 0 THEN {<<>>}
    ELSE UNION {{<<p>> \o s : s \in PartSeqs(k - 1, w - Weight(p))} :
                p \in {q \in Parts : Weight(q) <= w}}

FirstCandidates ==
    {[parts |-> ps] : ps \in UNION {PartSeqs(k, MaxFields) : k \in 0..MaxParts}}

\* a further candidate, whose text occurs in no first candidate
OtherCandidate ==
    [parts |-> <<[text |-> Some(<<"z">>), executable_code |-> None,
                  code_execution_result |-> None, inline_data |-> None]>>]

\* no candidate, one candidate, or MaxCandidates candidates
Responses ==
    {[candidates |-> <<>>]} \cup
    {[candidates |-> <<c>> \o [i \in 1..n |-> OtherCandidate]] :
        c \in FirstCandidates, n \in {0, MaxCandidates - 1}}

KeyVals(k) == {None, Some(<<>>), Some(<<k>>)}
PromptVals == {None, Some(<<"p">>)}

----------------------------------------------------------------------------
(* display_code_execution_result, one action per statement group.          *)

\* a faulty variant of Candidate0: the last candidate is taken instead of the first
LastCandidate(resp) == resp.candidates[Len(resp.candidates)]
\* line 42: candidate = response.candidates[0]
Candidate0(resp) == resp.candidates[1]

\* the part the for loop currently holds (candidate.content.parts[idx - 1])
CurPart == Candidate0(Val(response)).parts[idx]

\* line 47: part.text is not None
TextPresent(part) == part.text # None

\* a faulty variant of EnterBody: the global is not reset when it is already bound
EnterNoReset(resp) ==
    /\ results' = <<>>
    /\ IF Len(resp.candidates) = 0
       THEN /\ exc' = "IndexError"
            /\ dpc' = "raised"
            /\ UNCHANGED <<responseText, idx>>
       ELSE /\ responseText' = IF responseText = None THEN Some(<<>>) ELSE responseText
            /\ idx' = 0
            /\ dpc' = "l45"
            /\ exc' = ""
\* a faulty variant of EnterBody: an empty candidate list is taken as a candidate without
\* parts
EnterNoIndexError(resp) ==
    /\ results' = <<>>
    /\ responseText' = Some(<<>>)
    /\ idx' = 0
    /\ dpc' = IF Len(resp.candidates) = 0 THEN "returned" ELSE "l45"
    /\ exc' = ""
\* lines 41-44 on the response passed in: results = []; candidate =
\* response.candidates[0] (IndexError on an empty list, raised before the global
\* is touched); responseText = ""
EnterBody(resp) ==
    /\ results' = <<>>
    /\ IF Len(resp.candidates) = 0
       THEN /\ exc' = "IndexError"
            /\ dpc' = "raised"
            /\ UNCHANGED <<responseText, idx>>
       ELSE /\ responseText' = Some(<<>>)
            /\ idx' = 0
            /\ dpc' = "l45"
            /\ exc' = ""

\* line 96 and lines 41-44: main calls display_code_execution_result(response),
\* which runs up to the loop
CallDisplay ==
    /\ pc = "l96"
    /\ dpc = "idle"
    /\ EnterBody(Val(response))
    /\ UNCHANGED <<mainVars, response, part_result, dirty>>

\* lines 45-46: the for loop takes the next part and part_result = {}; or the
\* loop ends and line 64 returns results
For ==
    /\ dpc = "l45"
    /\ IF idx < Len(Candidate0(Val(response)).parts)
       THEN /\ idx' = idx + 1
            /\ part_result' = EmptyDict
            /\ dpc' = "l47"
       ELSE /\ dpc' = "returned"
            /\ UNCHANGED <<idx, part_result>>
    /\ UNCHANGED <<mainVars, response, results, responseText, exc, dirty>>

\* lines 47-49
IfText ==
    /\ dpc = "l47"
    /\ IF TextPresent(CurPart)
       THEN /\ part_result' = Put(part_result, "text", CurPart.text)
            /\ responseText' = Some(Concat(Val(responseText), Val(CurPart.text)))
       ELSE UNCHANGED <<part_result, responseText>>
    /\ dpc' = "l50"
    /\ UNCHANGED <<mainVars, response, results, idx, exc, dirty>>

\* lines 50-54: str += None raises TypeError after line 51 has stored the key
IfCode ==
    /\ dpc = "l50"
    /\ LET ec == CurPart.executable_code IN
       IF ec # None
       THEN IF Val(ec).code = None
            THEN /\ part_result' = Put(part_result, "code", Val(ec).code)
                 /\ exc' = "TypeError"
                 /\ dpc' = "raised"
                 /\ UNCHANGED responseText
            ELSE /\ responseText' = Some(Concat(Val(responseText), Val(Val(ec).code)))
                 /\ part_result' =
                        IF Val(ec).language # None
                        THEN Put(Put(part_result, "code", Val(ec).code),
                                 "language", Val(ec).language)
                        ELSE Put(part_result, "code", Val(ec).code)
                 /\ dpc' = "l55"
                 /\ exc' = exc
       ELSE /\ dpc' = "l55"
            /\ UNCHANGED <<part_result, responseText, exc>>
    /\ UNCHANGED <<mainVars, response, results, idx, dirty>>

\* lines 55-57
IfResult ==
    /\ dpc = "l55"
    /\ LET cr == CurPart.code_execution_result IN
       IF cr # None
       THEN IF Val(cr).output = None
            THEN /\ part_result' = Put(part_result, "execution_result", Val(cr).output)
                 /\ exc' = "TypeError"
                 /\ dpc' = "raised"
                 /\ UNCHANGED responseText
            ELSE /\ part_result' = Put(part_result, "execution_result", Val(cr).output)
                 /\ responseText' = Some(Concat(Val(responseText), Val(Val(cr).output)))
                 /\ dpc' = "l58"
                 /\ exc' = exc
       ELSE /\ dpc' = "l58"
            /\ UNCHANGED <<part_result, responseText, exc>>
    /\ UNCHANGED <<mainVars, response, results, idx, dirty>>

\* a faulty variant of IfInline: the inline data is appended to the transcript too
IfInlineAppends ==
    /\ dpc = "l58"
    /\ LET d == CurPart.inline_data IN
       IF d # None
       THEN /\ part_result' = Put(part_result, "inline_data",
                                  [data |-> Val(d).data, mime_type |-> Val(d).mime_type])
            /\ responseText' = Some(Concat(Val(responseText), Val(d).data))
       ELSE UNCHANGED <<part_result, responseText>>
    /\ dpc' = "l63"
    /\ UNCHANGED <<mainVars, response, results, idx, exc, dirty>>
\* lines 58-62
IfInline ==
    /\ dpc = "l58"
    /\ LET d == CurPart.inline_data IN
       IF d # None
       THEN part_result' = Put(part_result, "inline_data",
                               [data |-> Val(d).data, mime_type |-> Val(d).mime_type])
       ELSE UNCHANGED part_result
    /\ dpc' = "l63"
    /\ UNCHANGED <<mainVars, response, results, idx, responseText, exc, dirty>>

\* a faulty variant of AppendResult: a part with no field populated leaves no record
AppendNonEmpty ==
    /\ dpc = "l63"
    /\ results' = IF DOMAIN part_result = {} THEN results
                  ELSE Append(results, part_result)
    /\ dpc' = "l45"
    /\ UNCHANGED <<mainVars, response, idx, part_result, responseText, exc, dirty>>
\* line 63: results.append(part_result)
AppendResult ==
    /\ dpc = "l63"
    /\ results' = Append(results, part_result)
    /\ dpc' = "l45"
    /\ UNCHANGED <<mainVars, response, idx, part_result, responseText, exc, dirty>>

Loop ==
    \/ For
    \/ IfText
    \/ IfCode
    \/ IfResult
    \/ IfInline
    \/ AppendResult

----------------------------------------------------------------------------
(* The function called any number of times in one process, each call with  *)
(* any response; an exception of a call is caught by the caller.           *)

InitCalls ==
    /\ pc = "harness"
    /\ environ = None
    /\ args = None
    /\ api_key = None
    /\ client = None
    /\ netlog = <<>>
    /\ response = None
    /\ dpc = "idle"
    /\ results = <<>>
    /\ idx = 0
    /\ part_result = EmptyDict
    /\ responseText = None
    /\ structured_parts = None
    /\ output = None
    /\ stdout = <<>>
    /\ exc = ""
    /\ exit_code = None
    /\ dirty = FALSE

\* line 26 and lines 41-44: display_code_execution_result(r) is called with a
\* fresh frame and runs up to the loop
Call ==
    /\ pc = "harness"
    /\ dpc = "idle"
    /\ \E r \in Responses :
          /\ response' = Some(r)
          /\ EnterBody(r)
    /\ part_result' = EmptyDict
    /\ dirty' = Truthy(responseText)
    /\ UNCHANGED mainVars

\* the caller is done with a call (it returned, or its exception was caught):
\* the frame and the caller's references are gone, the global stays
Release ==
    /\ pc = "harness"
    /\ dpc \in {"returned", "raised"}
    /\ dpc' = "idle"
    /\ response' = None
    /\ results' = <<>>
    /\ idx' = 0
    /\ part_result' = EmptyDict
    /\ exc' = ""
    /\ dirty' = FALSE
    /\ UNCHANGED <<mainVars, responseText>>

NextCalls == Call \/ Loop \/ Release

SpecCalls == InitCalls /\ [][NextCalls]_vars

----------------------------------------------------------------------------
(* main, one action per statement group.                                   *)

Init ==
    /\ pc = "l73"
    /\ environ \in KeyVals("B")
    /\ args = None
    /\ api_key = None
    /\ client = None
    /\ netlog = <<>>
    /\ response = None
    /\ dpc = "idle"
    /\ results = <<>>
    /\ idx = 0
    /\ part_result = EmptyDict
    /\ responseText = None
    /\ structured_parts = None
    /\ output = None
    /\ stdout = <<>>
    /\ exc = ""
    /\ exit_code = None
    /\ dirty = FALSE

\* lines 68-73: --prompt is required (argparse exits with status 2 without it),
\* --api-key is optional
ParseArgs ==
    /\ pc = "l73"
    /\ \E p \in PromptVals, k \in KeyVals("A") :
          IF p = None
          THEN /\ exc' = "SystemExit"
               /\ exit_code' = Some(2)
               /\ pc' = "exit"
               /\ args' = args
          ELSE /\ args' = Some([prompt |-> Val(p), api_key |-> k])
               /\ pc' = "l76"
               /\ UNCHANGED <<exc, exit_code>>
    /\ UNCHANGED <<environ, api_key, client, netlog, response, dpc, results, idx,
                   part_result, responseText, structured_parts, output, stdout, dirty>>

\* a faulty variant of Or: the environment variable is preferred over the argument
OrSwapped(a, b) == IF Truthy(b) THEN b ELSE a
\* line 76: a or b on two Optional[str]
Or(a, b) == IF Truthy(a) THEN a ELSE b

\* a faulty variant of ResolveKey: the check of line 77 is missing
ResolveKeyUnchecked ==
    /\ pc = "l76"
    /\ api_key' = Or(Val(args).api_key, environ)
    /\ pc' = "l81"
    /\ UNCHANGED <<environ, args, client, netlog, response, dpc, results, idx,
                   part_result, responseText, structured_parts, output, stdout, exc,
                   exit_code, dirty>>
\* lines 76-78
ResolveKey ==
    /\ pc = "l76"
    /\ api_key' = Or(Val(args).api_key, environ)
    /\ IF ~Truthy(api_key')
       THEN /\ exc' = "ValueError"
            /\ exit_code' = Some(1)
            /\ pc' = "exit"
       ELSE /\ pc' = "l81"
            /\ UNCHANGED <<exc, exit_code>>
    /\ UNCHANGED <<environ, args, client, netlog, response, dpc, results, idx,
                   part_result, responseText, structured_parts, output, stdout, dirty>>

\* lines 81-86: the client and the request configuration; nothing is sent yet
MakeClient ==
    /\ pc = "l81"
    /\ client' = Some([api_key |-> api_key, api_version |-> "v1alpha"])
    /\ pc' = "l89"
    /\ UNCHANGED <<environ, args, api_key, netlog, response, dpc, results, idx,
                   part_result, responseText, structured_parts, output, stdout, exc,
                   exit_code, dirty>>

\* the request of lines 89-93
Request ==
    [model |-> "gemini-2.0-flash-exp", contents |-> Val(args).prompt,
     tools |-> <<"code_execution">>, api_key |-> Val(client).api_key]

\* a faulty variant of GenerateContent: a failed request is sent again
GenerateContentRetry ==
    /\ pc = "l89"
    /\ netlog' = Append(netlog, Request)
    /\ \/ /\ \E r \in Responses : response' = Some(r)
          /\ pc' = "l96"
       \/ /\ Len(netlog) < 2
          /\ pc' = "l89"
          /\ UNCHANGED response
    /\ UNCHANGED <<environ, args, api_key, client, dpc, results, idx, part_result,
                   responseText, structured_parts, output, stdout, exc, exit_code,
                   dirty>>
\* lines 89-93: one blocking request; it returns a response or raises
GenerateContent ==
    /\ pc = "l89"
    /\ netlog' = Append(netlog, Request)
    /\ \/ /\ \E r \in Responses : response' = Some(r)
          /\ pc' = "l96"
          /\ UNCHANGED <<exc, exit_code>>
       \/ /\ exc' = "APIError"
          /\ exit_code' = Some(1)
          /\ pc' = "exit"
          /\ UNCHANGED response
    /\ UNCHANGED <<environ, args, api_key, client, dpc, results, idx, part_result,
                   responseText, structured_parts, output, stdout, dirty>>

\* line 96: the returned list is bound to structured_parts
BindStructured ==
    /\ pc = "l96"
    /\ dpc = "returned"
    /\ structured_parts' = Some(results)
    /\ pc' = "l99"
    /\ UNCHANGED <<environ, args, api_key, client, netlog, response, dpc, results,
                   idx, part_result, responseText, output, stdout, exc, exit_code,
                   dirty>>

\* line 96: an exception of the call is not caught; the process ends with a
\* traceback on standard error and status 1
Propagate ==
    /\ pc = "l96"
    /\ dpc = "raised"
    /\ exit_code' = Some(1)
    /\ pc' = "exit"
    /\ UNCHANGED <<environ, args, api_key, client, netlog, response, dpc, results,
                   idx, part_result, responseText, structured_parts, output, stdout,
                   exc, dirty>>

\* lines 99-104
BuildOutput ==
    /\ pc = "l99"
    /\ output' = Some([prompt |-> Val(args).prompt,
                       structured_response |-> Val(structured_parts),
                       model |-> "gemini-2.0-flash-thinking-exp",
                       status |-> "success"])
    /\ pc' = "l107"
    /\ UNCHANGED <<environ, args, api_key, client, netlog, response, dpc, results,
                   idx, part_result, responseText, structured_parts, stdout, exc,
                   exit_code, dirty>>

\* what json.dumps(out) would write: an object in braces (its members are not
\* spelled out here)
JsonDumps(out) == <<"{">> \o out.prompt \o <<"}">>

\* a faulty variant of Line107: the record is serialized and printed, as the comment of
\* line 106 says
Line107Json(out, text) == JsonDumps(out) \o NL
\* line 107: print(responseText) writes the str and a newline
Line107(out, text) == text \o NL

\* line 107, and the normal end of the process
PrintText ==
    /\ pc = "l107"
    /\ stdout' = stdout \o Line107(Val(output), Val(responseText))
    /\ exit_code' = Some(0)
    /\ pc' = "exit"
    /\ UNCHANGED <<environ, args, api_key, client, netlog, response, dpc, results,
                   idx, part_result, responseText, structured_parts, output, exc,
                   dirty>>

Next ==
    \/ ParseArgs
    \/ ResolveKey
    \/ MakeClient
    \/ GenerateContent
    \/ CallDisplay
    \/ Loop
    \/ BindStructured
    \/ Propagate
    \/ BuildOutput
    \/ PrintText

Spec == Init /\ [][Next]_vars

----------------------------------------------------------------------------
(* What the claims speak of.                                               *)

\* the str an Optional[str] field adds to a transcript: nothing when it is None
FieldStr(o) == IF o = None THEN <<>> ELSE Val(o)

\* text, then code, then execution output of one part
PartFlat(p) ==
    FieldStr(p.text)
    \o (IF p.executable_code = None THEN <<>>
        ELSE FieldStr(Val(p.executable_code).code))
    \o (IF p.code_execution_result = None THEN <<>>
        ELSE FieldStr(Val(p.code_execution_result).output))

RECURSIVE FlatParts(_)
\* the parts' strings in part order
FlatParts(ps) == IF ps = <<>> THEN <<>> ELSE PartFlat(Head(ps)) \o FlatParts(Tail(ps))

IsPrefix(a, b) == Len(a) <= Len(b) /\ SubSeq(b, 1, Len(a)) = a

Candidates == Val(response).candidates
\* the parts of candidates[0]
FirstParts == Candidates[1].parts

WithoutInline(ps) == [i \in 1..Len(ps) |-> [ps[i] EXCEPT !.inline_data = None]]

InLoop == dpc \in {"l45", "l47", "l50", "l55", "l58", "l63"}

\* C1: when display_code_execution_result has returned, responseText is the
\* concatenation over the parts of candidates[0], in part order, of the text, code
\* and execution output that are present, in that order within a part; no other
\* candidate contributes.
C1_TranscriptIsConcatenation ==
    dpc = "returned" => responseText = Some(FlatParts(FirstParts))

\* C1's case: two candidates; the first has a part with text, code and output and
\* a second part with the same text again
C1_Witness ==
    /\ dpc = "returned"
    /\ Len(Candidates) = 2
    /\ Len(FirstParts) = 2
    /\ FirstParts[1].text # None
    /\ FirstParts[1].executable_code # None
    /\ FirstParts[1].code_execution_result # None
    /\ FirstParts[2].text = FirstParts[1].text
    /\ responseText = Some(<<"t", "c", "o", "t">>)

C3_NoKeyNoRequest ==
    /\ (args # None /\ Val(args).api_key = None /\ environ = None) =>
          /\ pc \in {"l76", "exit"}
          /\ client = None
          /\ netlog = <<>>
          /\ response = None
          /\ stdout = <<>>
          /\ pc = "exit" => (exc = "ValueError" /\ exit_code = Some(1))
    /\ netlog # <<>> => (Truthy(api_key) /\ netlog[1].api_key = api_key)

C3_Witness ==
    /\ pc = "exit"
    /\ args # None
    /\ Val(args).api_key = None
    /\ environ = None
    /\ exc = "ValueError"
    /\ exit_code = Some(1)

\* C4 as stated: whenever --api-key A and GEMINI_API_KEY B are both set, the key
\* the client is built with is A.
C4_Original ==
    (client # None /\ Val(args).api_key # None /\ environ # None) =>
        Val(client).api_key = Val(args).api_key

\* C4 as amended: the client is built with A whenever A is a non-empty string;
\* the environment value B is used exactly when --api-key is missing or empty,
\* and B is then non-empty.
C4_ArgumentPrecedence ==
    client # None =>
        IF Truthy(Val(args).api_key)
        THEN Val(client).api_key = Val(args).api_key
        ELSE Val(client).api_key = environ /\ Truthy(environ)

C4_Witness ==
    /\ client # None
    /\ Val(args).api_key = Some(<<"A">>)
    /\ environ = Some(<<"B">>)
    /\ Val(client).api_key = Some(<<"A">>)

\* C5 as stated: whatever subset of a part's payload fields (text, the code of
\* executable_code, the output of code_execution_result, inline_data) is None, a
\* call on a response with a candidate does not raise.
C5_NeverRaises ==
    (response # None /\ Len(Candidates) >= 1) => (dpc # "raised" /\ exc = "")

\* C6: a response without candidates makes the call raise IndexError, which ends
\* main with a non-zero status and nothing on standard output; a first candidate
\* without parts is no error and gives the empty transcript and the empty list.
C6_EmptinessPolicy ==
    /\ (dpc # "idle" /\ Len(Candidates) = 0) =>
          /\ dpc = "raised"
          /\ exc = "IndexError"
          /\ pc \in {"l96", "exit"}
          /\ stdout = <<>>
          /\ pc = "exit" => exit_code = Some(1)
    /\ (dpc # "idle" /\ Len(Candidates) >= 1 /\ FirstParts = <<>>) =>
          /\ dpc \in {"l45", "returned"}
          /\ exc = ""
          /\ responseText = Some(<<>>)
          /\ results = <<>>
          /\ pc = "exit" => (exit_code = Some(0) /\ stdout = NL)

C6_Witness ==
    /\ pc = "exit"
    /\ response # None
    /\ Len(Candidates) = 0
    /\ exc = "IndexError"
    /\ exit_code = Some(1)
    /\ responseText = None

\* C7: when lines 58-62 have run for a part, responseText is what the parts so
\* far give with their inline data removed, and a part with inline data has
\* {data, mime_type} under 'inline_data' in its record; the transcript returned
\* is that of the response without any inline data.
C7_InlineDataNotInTranscript ==
    /\ dpc = "l63" =>
          /\ responseText = Some(FlatParts(WithoutInline(SubSeq(FirstParts, 1, idx))))
          /\ CurPart.inline_data # None =>
                /\ "inline_data" \in DOMAIN part_result
                /\ part_result["inline_data"] =
                      [data |-> Val(CurPart.inline_data).data,
                       mime_type |-> Val(CurPart.inline_data).mime_type]
          /\ CurPart.inline_data = None => "inline_data" \notin DOMAIN part_result
    /\ dpc = "returned" => responseText = Some(FlatParts(WithoutInline(FirstParts)))

C7_Witness ==
    /\ dpc = "l63"
    /\ CurPart.inline_data # None
    /\ CurPart.text # None
    /\ part_result["inline_data"].data = <<"d">>
    /\ responseText = Some(<<"t">>)

\* C8: main is one pass resolve key -> one request -> flatten -> print: at most
\* one request is ever sent, only after the key is resolved and the client built;
\* the call runs only after the response arrived; standard output is written only
\* after the call returned; and once an exception is raised the run ends there,
\* with a non-zero status, no second request, no record built and nothing printed.
C8_SinglePass ==
    /\ Len(netlog) <= 1
    /\ netlog # <<>> => (client # None /\ Truthy(api_key))
    /\ response # None => Len(netlog) = 1
    /\ dpc # "idle" => response # None
    /\ stdout # <<>> => (dpc = "returned" /\ pc = "exit" /\ exit_code = Some(0))
    /\ exc # "" =>
          /\ pc = "exit" \/ (pc = "l96" /\ dpc = "raised")
          /\ stdout = <<>>
          /\ output = None
          /\ pc = "exit" => (exit_code # None /\ exit_code # Some(0))
    /\ exc = "APIError" => (Len(netlog) = 1 /\ response = None /\ dpc = "idle")

C8_Witness ==
    /\ pc = "exit"
    /\ exc = "APIError"
    /\ Len(netlog) = 1
    /\ exit_code = Some(1)

RecordKeys == {"text", "code", "language", "execution_result", "inline_data"}

\* record r is the record of part p
RecordOf(r, p) ==
    /\ DOMAIN r \subseteq RecordKeys
    /\ "text" \in DOMAIN r <=> p.text # None
    /\ "text" \in DOMAIN r => r["text"] = p.text
    /\ "code" \in DOMAIN r <=> p.executable_code # None
    /\ "code" \in DOMAIN r => r["code"] = Val(p.executable_code).code
    /\ "execution_result" \in DOMAIN r <=> p.code_execution_result # None
    /\ "execution_result" \in DOMAIN r =>
          r["execution_result"] = Val(p.code_execution_result).output
    /\ "inline_data" \in DOMAIN r <=> p.inline_data # None
    /\ "inline_data" \in DOMAIN r =>
          r["inline_data"] = [data |-> Val(p.inline_data).data,
                              mime_type |-> Val(p.inline_data).mime_type]
    /\ "language" \in DOMAIN r => "code" \in DOMAIN r

\* C9: the list returned has one record per part of candidates[0], in part order
\* (an empty record for a part with no field), and record i has the keys 'text',
\* 'code', 'execution_result', 'inline_data' exactly for the fields part i has,
\* with their values; 'language' only beside 'code'.
C9_OneRecordPerPart ==
    dpc = "returned" =>
        /\ Len(results) = Len(FirstParts)
        /\ \A i \in 1..Len(FirstParts) : RecordOf(results[i], FirstParts[i])

C9_Witness ==
    /\ dpc = "returned"
    /\ Len(results) = 2
    /\ DOMAIN results[1] = {}
    /\ DOMAIN results[2] = RecordKeys

\* C10 as stated (its part on earlier calls): after a call, also one that raised,
\* responseText holds no text but that of the call's own response.
C10_Original ==
    dpc \in {"returned", "raised"} =>
        \/ responseText = None
        \/ IsPrefix(Val(responseText),
                    IF Len(Candidates) = 0 THEN <<>> ELSE FlatParts(FirstParts))

\* C10 as amended: inside a call responseText only grows by appending; a call
\* whose response has a candidate starts it empty, so that it holds a prefix of
\* that response's transcript throughout and the whole transcript on return,
\* whatever an earlier call left; a call whose response has no candidate raises
\* before the reset and leaves responseText as it was.
C10_ResetThenAppendOnly ==
    /\ [][InLoop => IsPrefix(Val(responseText), Val(responseText'))]_vars
    /\ [][(dpc = "idle" /\ dpc' = "raised") => responseText' = responseText]_vars
    /\ []((dpc # "idle" /\ Len(Candidates) >= 1) =>
             /\ responseText # None
             /\ IsPrefix(Val(responseText), FlatParts(FirstParts)))
    /\ [](dpc = "returned" => responseText = Some(FlatParts(FirstParts)))

\* C10's case: a call that began while the global held text of an earlier call
\* has returned
C10_Witness ==
    /\ dpc = "returned"
    /\ dirty
    /\ Len(FirstParts) = 2
    /\ responseText = Some(<<"c", "o">>)

============================================================================
